---- MODULE Spec2Model ----
(***************************************************************************)
(* Model of decode.py: the GREE remote-control IR decoder.                 *)
(*                                                                         *)
(* The script reads log lines; each line carries a list of signed pulse    *)
(* durations (microseconds) and may begin a new raw dump ("Received").     *)
(* next_frame accumulates durations in the global current_frame,           *)
(* next_code turns a frame into a symbol string, next_bytes into bytes,    *)
(* next_data into a record.  print() calls are modelled as the sequence    *)
(* `out` of diagnostics of the last call, Python exceptions as `fault`.    *)
(* A Python None result is <<>>, a value v is <<v>>.                       *)
(***************************************************************************)
EXTENDS Integers, Sequences, FiniteSets, TLC

VARIABLES
    pending,        \* log lines not yet read: [received, timings]
    current_frame,  \* the global accumulation buffer of next_frame
    frame,          \* result of the last next_frame call
    code,           \* result of the last next_code call
    bytes,          \* result of the last next_bytes call
    data,           \* result of the last next_data call
    out,            \* diagnostics printed by the last call
    fault,          \* "none", or the exception that ended the program
    pc,             \* position of the main loop
    read,           \* log lines read so far
    frames,         \* frames returned by next_frame so far
    sent            \* the transmission a directly injected frame was made from

vars == <<pending, current_frame, frame, code, bytes, data, out, fault, pc, read, frames, sent>>

None == <<>>
Some(v) == <<v>>

(***************************************************************************)
(* Burst and pause length checks                                           *)
(***************************************************************************)
is_long_start(hi, lo) == 8000 < hi /\ lo < -4000

is_short_start(hi, lo) == 5000 < hi /\ hi < 7000 /\ -3500 < lo /\ lo < -2500

\* a variant with the upper limit at the median width
is_bit_narrow(hi) == 600 < hi /\ hi < 700

is_bit(hi) == 600 < hi /\ hi < 800

is_zero(hi, lo) == is_bit(hi) /\ -600 < lo /\ lo < -400

is_one(hi, lo) == is_bit(hi) /\ -1700 < lo /\ lo < -1500

is_space(hi, lo) == is_bit(hi) /\ lo < -19000

(***************************************************************************)
(* next_frame: one log line.  `received` is                                *)
(* payload.lstrip().startswith("Received"), `timings` the numbers of the   *)
(* line.  The result carries the new value of the global buffer, the       *)
(* returned frame, the diagnostics and the exception raised (reading       *)
(* current_frame[0] or [1] of a shorter list is an IndexError, raised      *)
(* after the global has been assigned).                                    *)
(***************************************************************************)
StdFrameLen == 139
ShortFrameLen == 35

Accumulate(buf, timings, received) == IF received THEN timings ELSE buf \o timings

\* a variant that warns on every "Received" line
ExtraBitsAlways(buf, received) == IF received THEN <<"extra bits">> ELSE <<>>

ExtraBits(buf, received) ==
    IF received /\ Len(buf) > 0 THEN <<"extra bits">> ELSE <<>>

LongComplete(acc) == is_long_start(acc[1], acc[2]) /\ Len(acc) >= StdFrameLen

ShortComplete(acc) == is_short_start(acc[1], acc[2]) /\ Len(acc) >= ShortFrameLen

\* a variant that hands over a frame cut to the nominal length
ReturnedCut(acc) ==
    SubSeq(acc, 1, IF is_long_start(acc[1], acc[2]) THEN StdFrameLen ELSE ShortFrameLen)

Returned(acc) == acc

next_frame(buf, timings, received) ==
    LET acc == Accumulate(buf, timings, received)
        msg == ExtraBits(buf, received)
    IN  IF Len(acc) < 2
        THEN [buf |-> acc, ret |-> None, out |-> msg, fault |-> "IndexError"]
        ELSE IF LongComplete(acc)
        THEN [buf |-> <<>>, ret |-> Some(Returned(acc)), out |-> msg, fault |-> "none"]
        ELSE IF ShortComplete(acc)
        THEN [buf |-> <<>>, ret |-> Some(Returned(acc)), out |-> msg, fault |-> "none"]
        ELSE [buf |-> acc, ret |-> None, out |-> msg, fault |-> "none"]

(***************************************************************************)
(* Python string helpers, on sequences of one-character strings            *)
(***************************************************************************)
RECURSIVE lstrip(_, _)
lstrip(s, chars) ==
    IF s # <<>> /\ Head(s) \in chars THEN lstrip(Tail(s), chars) ELSE s

RECURSIVE rstrip(_, _)
rstrip(s, chars) ==
    IF s # <<>> /\ s[Len(s)] \in chars THEN rstrip(SubSeq(s, 1, Len(s) - 1), chars) ELSE s

StartsWith(s, pat) == Len(s) >= Len(pat) /\ SubSeq(s, 1, Len(pat)) = pat

\* str.replace(pat, ""): occurrences are found left to right, without overlap
RECURSIVE remove(_, _)
remove(s, pat) ==
    IF s = <<>> THEN <<>>
    ELSE IF StartsWith(s, pat) THEN remove(SubSeq(s, Len(pat) + 1, Len(s)), pat)
    ELSE <<Head(s)>> \o remove(Tail(s), pat)

reversed(s) == [i \in 1..Len(s) |-> s[Len(s) + 1 - i]]

Contains(s, c) == \E i \in 1..Len(s) : s[i] = c

\* int(text, 2): binary digits, single underscores allowed between digits only
int2_ok(s) ==
    /\ s # <<>>
    /\ \A i \in 1..Len(s) : s[i] \in {"0", "1", "_"}
    /\ s[1] # "_" /\ s[Len(s)] # "_"
    /\ \A i \in 1..(Len(s) - 1) : ~(s[i] = "_" /\ s[i + 1] = "_")

RECURSIVE int2_val(_, _)
int2_val(s, acc) ==
    IF s = <<>> THEN acc
    ELSE IF Head(s) = "_" THEN int2_val(Tail(s), acc)
    ELSE int2_val(Tail(s), 2 * acc + (IF Head(s) = "1" THEN 1 ELSE 0))

(***************************************************************************)
(* next_code: a frame of timings to a symbol string                        *)
(*   S s : start of a standard / short frame,  0 1 : data bit,             *)
(*   _ : intra-frame space,  $ : stop bit,  x : ambiguous bit              *)
(***************************************************************************)
StdCodeLen == 70
ShortCodeLen == 18

Symbol(h, l) ==
    IF is_long_start(h, l) THEN "S"
    ELSE IF is_short_start(h, l) THEN "s"
    ELSE IF is_zero(h, l) THEN "0"
    ELSE IF is_one(h, l) THEN "1"
    ELSE IF is_space(h, l) THEN "_"
    ELSE "x"

StopSymbol(h) == IF is_bit(h) THEN "$" ELSE "x"

Symbols(timings) ==
    [i \in 1..((Len(timings) + 1) \div 2) |->
        IF 2 * i <= Len(timings) THEN Symbol(timings[2 * i - 1], timings[2 * i])
        ELSE StopSymbol(timings[Len(timings)])]

StdShape(c) ==
    c[1] = "S" /\ Contains(c, "_") /\ c[Len(c)] = "$" /\ Len(c) = StdCodeLen

ShortShape(c) ==
    c[1] = "s" /\ ~Contains(c, "_") /\ c[Len(c)] = "$" /\ Len(c) = ShortCodeLen

next_code(timings) ==
    IF Len(timings) % 2 = 0
    THEN [ret |-> None, out |-> <<"even bits">>]
    ELSE LET current_code == Symbols(timings)
         IN  IF Contains(current_code, "x")
             THEN [ret |-> None, out |-> <<"invalid bit">>]
             ELSE IF StdShape(current_code) \/ ShortShape(current_code)
             THEN [ret |-> Some(current_code), out |-> <<>>]
             ELSE [ret |-> None, out |-> <<"invalid code structure">>]

(***************************************************************************)
(* next_bytes: a symbol string to data bytes, each transmitted LSB first.  *)
(* int() of a group holding a character that is no binary digit is a       *)
(* ValueError.                                                             *)
(***************************************************************************)
PayloadBits(c) == rstrip(remove(lstrip(c, {"S", "s"}), <<"0", "1", "0", "_">>), {"$"})

Group(bits, k) == SubSeq(bits, 8 * k - 7, 8 * k)

\* a variant reading the group MSB first
ByteOfMsb(group) == int2_val(group, 0)

ByteOf(group) == int2_val(reversed(group), 0)

next_bytes(c) ==
    LET bits == PayloadBits(c)
        n == Len(bits) \div 8
    IN  IF Len(bits) % 8 # 0
        THEN [ret |-> None, out |-> <<"invalid code length">>, fault |-> "none"]
        ELSE IF \E k \in 1..n : ~int2_ok(reversed(Group(bits, k)))
        THEN [ret |-> None, out |-> <<>>, fault |-> "ValueError"]
        ELSE [ret |-> Some([k \in 1..n |-> ByteOf(Group(bits, k))]),
              out |-> <<>>, fault |-> "none"]

(***************************************************************************)
(* Integer bit operations of Python, on naturals                           *)
(***************************************************************************)
RECURSIVE BitAnd(_, _)
BitAnd(a, b) ==
    IF a = 0 \/ b = 0 THEN 0
    ELSE (a % 2) * (b % 2) + 2 * BitAnd(a \div 2, b \div 2)

RECURSIVE BitOr(_, _)
BitOr(a, b) ==
    IF a = 0 THEN b ELSE IF b = 0 THEN a
    ELSE (IF a % 2 = 1 \/ b % 2 = 1 THEN 1 ELSE 0) + 2 * BitOr(a \div 2, b \div 2)

Shr(a, n) == a \div (2 ^ n)

Shl(a, n) == a * (2 ^ n)

\* bytes[i] with Python's zero-based index
At(bs, i) == bs[i + 1]

(***************************************************************************)
(* Enumerations: value -> name; a value outside the domain is a ValueError *)
(***************************************************************************)
Mode == (0 :> "Auto") @@ (1 :> "Cool") @@ (2 :> "Dry") @@ (3 :> "Fan") @@ (4 :> "Heat")

Fan == (0 :> "Auto") @@ (1 :> "Low") @@ (2 :> "Med") @@ (3 :> "High")

HGuide ==
    (0 :> "Closed") @@ (2 :> "Left") @@ (3 :> "MidLeft") @@ (4 :> "Mid") @@
    (5 :> "MidRight") @@ (6 :> "Right") @@ (12 :> "Out") @@
    (1 :> "SwingLeftRight") @@ (13 :> "SwingInOut")

VGuide ==
    (0 :> "Closed") @@ (2 :> "Up") @@ (3 :> "MidUp") @@ (4 :> "Mid") @@
    (5 :> "MidDown") @@ (6 :> "Down") @@ (1 :> "SwingUpDown") @@
    (7 :> "SwingDown") @@ (9 :> "SwingMid") @@ (11 :> "SwingUp")

TempDisplay == (0 :> "Default") @@ (1 :> "Set") @@ (2 :> "Room") @@ (3 :> "Outdoor")

\* "Swing" in name, for the names of HGuide and VGuide
SwingInName(name) ==
    name \in {"SwingLeftRight", "SwingInOut", "SwingUpDown", "SwingDown", "SwingMid", "SwingUp"}

(***************************************************************************)
(* Field decoders.  Each gives [ret, out, fault].  The float fields        *)
(* timer_hours and temp are kept in half units (hours * 2, degrees * 2).   *)
(***************************************************************************)
CommonWarnings(bs) ==
    IF BitAnd(At(bs, 3), 2) # 0 THEN <<"nonzero 3[1] func2-unused">> ELSE <<>>

CommonFault(bs) == BitAnd(At(bs, 0), 7) \notin DOMAIN Mode

decode_common_data(bs) ==
    [sleep |-> BitAnd(At(bs, 0), 128) # 0,
     swing |-> BitAnd(At(bs, 0), 64) # 0,
     fan |-> Fan[Shr(BitAnd(At(bs, 0), 48), 4)],
     on |-> BitAnd(At(bs, 0), 8) # 0,
     mode |-> Mode[BitAnd(At(bs, 0), 7)],
     timer |-> BitAnd(At(bs, 1), 128) # 0,
     timer_hours |-> Shr(BitAnd(At(bs, 1), 96), 5) * 20 + BitAnd(At(bs, 2), 15) * 2
                     + Shr(BitAnd(At(bs, 1), 16), 4),
     temp |-> 2 * BitAnd(At(bs, 1), 15) + (IF BitAnd(At(bs, 3), 4) # 0 THEN 33 ELSE 32),
     x_fan |-> BitAnd(At(bs, 2), 128) # 0,
     health |-> BitAnd(At(bs, 2), 64) # 0,
     light |-> BitAnd(At(bs, 2), 32) # 0,
     turbo |-> BitAnd(At(bs, 2), 16) # 0,
     fahrenheit |-> BitAnd(At(bs, 3), 8) # 0,
     fresh_air |-> BitAnd(At(bs, 3), 1) # 0]

\* dict.update: the keys of upd replace or extend those of rec
update(rec, upd) == upd @@ rec

\* del rec[key]
del(rec, key) == [k \in (DOMAIN rec) \ {key} |-> rec[k]]

BasicWarnings(bs) ==
    (IF BitAnd(At(bs, 5), 128) = 0 THEN <<"zero 5[7] func3-lead">> ELSE <<>>) \o
    (IF BitAnd(At(bs, 5), 56) # 0 THEN <<"nonzero 5[5:3] func3-unused">> ELSE <<>>) \o
    (IF At(bs, 6) # 0 THEN <<"nonzero 6[7:0] unused">> ELSE <<>>) \o
    (IF BitAnd(At(bs, 7), 11) # 0 THEN <<"nonzero 7[3,1:0] control-unused">> ELSE <<>>)

BasicFault(bs) ==
    \/ CommonFault(bs)
    \/ Shr(BitAnd(At(bs, 4), 240), 4) \notin DOMAIN HGuide
    \/ BitAnd(At(bs, 4), 15) \notin DOMAIN VGuide

\* a variant that looks at the horizontal guide only
SwingRedundantH(res) == SwingInName(res.h_guide) = res.swing

SwingRedundant(res) ==
    (SwingInName(res.h_guide) \/ SwingInName(res.v_guide)) = res.swing

decode_basic_data(bs) ==
    IF BasicFault(bs)
    THEN [ret |-> None, out |-> BasicWarnings(bs) \o CommonWarnings(bs), fault |-> "ValueError"]
    ELSE LET res == update(update([type |-> "basic"], decode_common_data(bs)),
                        [h_guide |-> HGuide[Shr(BitAnd(At(bs, 4), 240), 4)],
                         v_guide |-> VGuide[BitAnd(At(bs, 4), 15)],
                         wifi |-> BitAnd(At(bs, 5), 64) # 0,
                         ifeel |-> BitAnd(At(bs, 5), 4) # 0,
                         temp_display |-> TempDisplay[BitAnd(At(bs, 5), 3)],
                         energy_save |-> BitAnd(At(bs, 7), 4) # 0])
         IN  [ret |-> Some(IF SwingRedundant(res) THEN del(res, "swing") ELSE res),
              out |-> BasicWarnings(bs) \o CommonWarnings(bs), fault |-> "none"]

TimerWarnings(bs) ==
    (IF BitAnd(At(bs, 5), 8) = 0 THEN <<"zero 5[3] on-lead">> ELSE <<>>) \o
    (IF BitAnd(At(bs, 7), 12) # 0 THEN <<"nonzero 7[3:2] control-unused">> ELSE <<>>)

decode_timer_data(bs) ==
    IF CommonFault(bs)
    THEN [ret |-> None, out |-> TimerWarnings(bs) \o CommonWarnings(bs), fault |-> "ValueError"]
    ELSE [ret |-> Some(update(update([type |-> "timer"], decode_common_data(bs)),
                        [on_mins |-> BitOr(Shl(BitAnd(At(bs, 5), 7), 8), At(bs, 4)),
                         overlap |-> BitAnd(At(bs, 5), 128) # 0,
                         off_mins |-> BitOr(Shl(At(bs, 6), 4), Shr(BitAnd(At(bs, 5), 112), 4)),
                         on_set |-> BitAnd(At(bs, 7), 2) # 0,
                         off_set |-> BitAnd(At(bs, 7), 1) # 0])),
          out |-> TimerWarnings(bs) \o CommonWarnings(bs), fault |-> "none"]

FooterWarnings(bs) ==
    (IF \E i \in {0, 1, 2, 4, 5, 6} : At(bs, i) # 0
     THEN <<"nonzero footer unused bytes">> ELSE <<>>) \o
    (IF BitAnd(At(bs, 3), 15) # 0 \/ BitAnd(At(bs, 7), 15) # 0
     THEN <<"nonzero unused bits">> ELSE <<>>)

decode_footer_data(bs) ==
    [ret |-> Some([type |-> "footer"]), out |-> FooterWarnings(bs), fault |-> "none"]

MagicByte == 165

decode_temp_data(bs) ==
    [ret |-> Some([type |-> "temp", temp |-> At(bs, 0)]),
     out |-> IF At(bs, 1) # MagicByte THEN <<"invalid magic byte">> ELSE <<>>,
     fault |-> "none"]

(***************************************************************************)
(* Checksum of the standard frames                                         *)
(***************************************************************************)
ChecksumSeed == 10

orig_checksum(bs) == Shr(BitAnd(At(bs, 7), 240), 4)

\* a variant without the constant term
calc_checksum_noseed(bs) ==
    BitAnd(BitAnd(At(bs, 0), 15) + BitAnd(At(bs, 1), 15) + BitAnd(At(bs, 2), 15)
           + BitAnd(At(bs, 3), 15) + Shr(BitAnd(At(bs, 4), 240), 4)
           + Shr(BitAnd(At(bs, 5), 240), 4) + Shr(BitAnd(At(bs, 6), 240), 4), 15)

\* a variant that leaves out byte 4 and adds the high nibble of byte 7
calc_checksum_skip4(bs) ==
    BitAnd(BitAnd(At(bs, 0), 15) + BitAnd(At(bs, 1), 15) + BitAnd(At(bs, 2), 15)
           + BitAnd(At(bs, 3), 15) + Shr(BitAnd(At(bs, 5), 240), 4)
           + Shr(BitAnd(At(bs, 6), 240), 4) + Shr(BitAnd(At(bs, 7), 240), 4)
           + ChecksumSeed, 15)

calc_checksum(bs) ==
    BitAnd(BitAnd(At(bs, 0), 15) + BitAnd(At(bs, 1), 15) + BitAnd(At(bs, 2), 15)
           + BitAnd(At(bs, 3), 15) + Shr(BitAnd(At(bs, 4), 240), 4)
           + Shr(BitAnd(At(bs, 5), 240), 4) + Shr(BitAnd(At(bs, 6), 240), 4)
           + ChecksumSeed, 15)

match_checksum(bs) ==
    [ret |-> orig_checksum(bs) = calc_checksum(bs),
     out |-> IF orig_checksum(bs) # calc_checksum(bs) THEN <<"checksum mismatch">> ELSE <<>>]

(***************************************************************************)
(* next_data: dispatch on the payload length and the frame type            *)
(***************************************************************************)
\* a variant without the mask
FrameTypeUnmasked(bs) == At(bs, 3)

FrameType(bs) == BitAnd(At(bs, 3), 240)

Prefixed(msgs, r) == [r EXCEPT !.out = msgs \o r.out]

Unknown(msgs) == [ret |-> None, out |-> msgs \o <<"unknown code type">>, fault |-> "none"]

next_data(bs) ==
    IF Len(bs) = 8
    THEN LET chk == match_checksum(bs).out
         IN  IF FrameType(bs) = 80 THEN Prefixed(chk, decode_basic_data(bs))
             ELSE IF FrameType(bs) = 96 THEN Prefixed(chk, decode_timer_data(bs))
             ELSE IF FrameType(bs) = 160 THEN Prefixed(chk, decode_footer_data(bs))
             ELSE Unknown(chk)
    ELSE IF Len(bs) = 2 THEN decode_temp_data(bs)
    ELSE Unknown(<<>>)

(***************************************************************************)
(* The main loop: one line is read and passed down the pipeline; a         *)
(* None result continues with the next line, an exception ends the         *)
(* program.                                                                *)
(***************************************************************************)
After(r, next) ==
    IF r.fault # "none" THEN "crashed" ELSE IF r.ret = None THEN "line" ELSE next

NextFrame ==
    /\ pc = "line"
    /\ pending # <<>>
    /\ LET line == Head(pending)
           r == next_frame(current_frame, line.timings, line.received)
       IN  /\ current_frame' = r.buf
           /\ frame' = r.ret
           /\ out' = r.out
           /\ fault' = r.fault
           /\ pc' = After(r, "code")
           /\ frames' = IF r.ret = None THEN frames ELSE Append(frames, r.ret[1])
           /\ read' = Append(read, line)
    /\ pending' = Tail(pending)
    /\ UNCHANGED <<code, bytes, data, sent>>

NextCode ==
    /\ pc = "code"
    /\ LET r == next_code(frame[1])
       IN  /\ code' = r.ret
           /\ out' = r.out
           /\ pc' = IF r.ret = None THEN "line" ELSE "bytes"
    /\ UNCHANGED <<pending, current_frame, frame, bytes, data, fault, read, frames, sent>>

NextBytes ==
    /\ pc = "bytes"
    /\ LET r == next_bytes(code[1])
       IN  /\ bytes' = r.ret
           /\ out' = r.out
           /\ fault' = r.fault
           /\ pc' = After(r, "data")
    /\ UNCHANGED <<pending, current_frame, frame, code, data, read, frames, sent>>

NextData ==
    /\ pc = "data"
    /\ LET r == next_data(bytes[1])
       IN  /\ data' = r.ret
           /\ out' = r.out
           /\ fault' = r.fault
           /\ pc' = After(r, "line")
    /\ UNCHANGED <<pending, current_frame, frame, code, bytes, read, frames, sent>>

(***************************************************************************)
(* The remote's signal, after the protocol description of the source:      *)
(* start burst, data bits LSB first, the 0 1 0 space run between byte 3    *)
(* and byte 4 of a standard frame, the closing burst.                      *)
(***************************************************************************)
LongStartHi == 9000
LongStartLo == -4500
ShortStartHi == 6000
ShortStartLo == -3000
BitLead == 700
NecBitLead == 560
ZeroLo == -500
OneLo == -1600
SpaceLo == -19800

BitsOf(byte) == [i \in 1..8 |-> (byte \div (2 ^ (i - 1))) % 2]

RECURSIVE Flatten(_)
Flatten(ss) == IF ss = <<>> THEN <<>> ELSE Head(ss) \o Flatten(Tail(ss))

BitPair(bit, lead) == <<lead, IF bit = 1 THEN OneLo ELSE ZeroLo>>

BytePairs(byte, lead) == Flatten([i \in 1..8 |-> BitPair(BitsOf(byte)[i], lead)])

PayloadPairs(bs, lead) == Flatten([k \in 1..Len(bs) |-> BytePairs(bs[k], lead)])

SyncPairs(lead) == <<lead, ZeroLo, lead, OneLo, lead, ZeroLo, lead, SpaceLo>>

EncodeStd(bs, lead) ==
    <<LongStartHi, LongStartLo>> \o PayloadPairs(SubSeq(bs, 1, 4), lead) \o SyncPairs(lead)
    \o PayloadPairs(SubSeq(bs, 5, 8), lead) \o <<lead>>

EncodeShort(bs, lead) ==
    <<ShortStartHi, ShortStartLo>> \o PayloadPairs(bs, lead) \o <<lead>>

(***************************************************************************)
(* The log: every line is a piece of a transmitted frame followed by       *)
(* MaxTail further durations, cut at the given positions, with or without  *)
(* the "Received" marker.                                                  *)
(***************************************************************************)
MaxLines == 2
MaxTail == 2

BasicSample == <<41, 9, 32, 80, 0, 128, 0, 64>>
TempSample == <<25, 165>>

TailDurations == [i \in 1..MaxTail |-> IF i % 2 = 1 THEN BitLead ELSE ZeroLo]

StdStream == EncodeStd(BasicSample, BitLead) \o TailDurations
ShortStream == EncodeShort(TempSample, BitLead) \o TailDurations

StdCuts == {0, 1, 70, StdFrameLen, StdFrameLen + MaxTail}
ShortCuts == {0, ShortFrameLen, ShortFrameLen + MaxTail}

Chunks ==
    {<<>>} \cup {SubSeq(StdStream, a + 1, b) : a, b \in StdCuts}
           \cup {SubSeq(ShortStream, a + 1, b) : a, b \in ShortCuts}

Lines == [received : BOOLEAN, timings : Chunks]

Logs == UNION {[1..n -> Lines] : n \in 0..MaxLines}

Init ==
    /\ pending \in Logs
    /\ current_frame = <<>>
    /\ frame = None
    /\ code = None
    /\ bytes = None
    /\ data = None
    /\ out = <<>>
    /\ fault = "none"
    /\ pc = "line"
    /\ read = <<>>
    /\ frames = <<>>
    /\ sent = None

Next == NextFrame \/ NextCode \/ NextBytes \/ NextData

Spec == Init /\ [][Next]_vars

(***************************************************************************)
(* Frames handed to next_code directly: a transmitted payload at a given   *)
(* bit-lead width, optionally with one pulse pair replaced (noise) and     *)
(* cut to a given number of durations.                                     *)
(***************************************************************************)
BytePayloads(n) ==
    {[i \in 1..n |-> IF i = k THEN b ELSE f] : k \in 1..n, b \in 0..255, f \in {0, 255}}

NoisePair(kind) ==
    CASE kind = "S" -> <<LongStartHi, LongStartLo>>
      [] kind = "s" -> <<ShortStartHi, ShortStartLo>>
      [] kind = "_" -> <<BitLead, SpaceLo>>
      [] kind = "0" -> <<BitLead, ZeroLo>>
      [] kind = "1" -> <<BitLead, OneLo>>
      [] OTHER -> <<BitLead, -1000>>

NoiseKinds == {"S", "s", "_", "0", "1", "x"}

Clean ==
    [kind : {"std"}, payload : BytePayloads(8), lead : {NecBitLead, BitLead},
     at : {0}, as : {"0"}, len : {StdFrameLen}]
    \cup
    [kind : {"short"}, payload : BytePayloads(2), lead : {NecBitLead, BitLead},
     at : {0}, as : {"0"}, len : {ShortFrameLen}]

Noisy ==
    [kind : {"std"}, payload : {BasicSample}, lead : {BitLead},
     at : 1..(StdCodeLen - 1), as : NoiseKinds, len : {StdFrameLen}]
    \cup
    [kind : {"short"}, payload : {TempSample}, lead : {BitLead},
     at : 1..(ShortCodeLen - 1), as : NoiseKinds, len : {ShortFrameLen}]

Truncated ==
    [kind : {"std"}, payload : {BasicSample}, lead : {BitLead},
     at : {0}, as : {"0"}, len : 0..(StdFrameLen - 1)]
    \cup
    [kind : {"short"}, payload : {TempSample}, lead : {BitLead},
     at : {0}, as : {"0"}, len : 0..(ShortFrameLen - 1)]

Transmissions == Clean \cup Noisy \cup Truncated

Transmit(t) ==
    LET full == IF t.kind = "std" THEN EncodeStd(t.payload, t.lead)
                ELSE EncodeShort(t.payload, t.lead)
        hit == IF t.at = 0 THEN full
               ELSE [full EXCEPT ![2 * t.at - 1] = NoisePair(t.as)[1],
                                 ![2 * t.at] = NoisePair(t.as)[2]]
    IN  SubSeq(hit, 1, t.len)

InitCode ==
    /\ sent \in {Some(t) : t \in Transmissions}
    /\ frame = Some(Transmit(sent[1]))
    /\ pc = "code"
    /\ pending = <<>>
    /\ current_frame = <<>>
    /\ code = None
    /\ bytes = None
    /\ data = None
    /\ out = <<>>
    /\ fault = "none"
    /\ read = <<>>
    /\ frames = <<>>

NextCodec == NextCode \/ NextBytes

SpecCode == InitCode /\ [][NextCodec]_vars

(***************************************************************************)
(* Payloads handed to next_data directly: one byte takes every value, the  *)
(* frame-type byte and the other bytes are drawn from small sets.          *)
(***************************************************************************)
Fills == {0, 65, 255}
TypeBytes == {0, 80, 95, 96, 160}

Payloads8 ==
    {[i \in 1..8 |-> IF i = k THEN b ELSE IF i = 4 THEN t ELSE f] :
        k \in 1..8, b \in 0..255, f \in Fills, t \in TypeBytes}

OtherLengths == {[i \in 1..n |-> 0] : n \in {0, 1, 3, 7, 9}}

Payloads == Payloads8 \cup BytePayloads(2) \cup OtherLengths

InitData ==
    /\ bytes \in {Some(p) : p \in Payloads}
    /\ pc = "data"
    /\ pending = <<>>
    /\ current_frame = <<>>
    /\ frame = None
    /\ code = None
    /\ data = None
    /\ out = <<>>
    /\ fault = "none"
    /\ read = <<>>
    /\ frames = <<>>
    /\ sent = None

SpecData == InitData /\ [][NextData]_vars

(***************************************************************************)
(* Properties of next_frame (specification Spec)                           *)
(***************************************************************************)
ReadsLine == pc = "line" /\ pending # <<>>

\* the buffer as the line leaves it before the completion test
Fed == IF Head(pending).received THEN Head(pending).timings
       ELSE current_frame \o Head(pending).timings

Count(msgs, m) == Cardinality({i \in 1..Len(msgs) : msgs[i] = m})

\* C1, as stated: a returned frame is exactly the first 139 durations of the
\* buffer (first pair StartStandard) or the first 35 (StartShort), never
\* more, and the buffer is empty when the call returns.
C1_ExactLength ==
    [][(ReadsLine /\ frame' # None) =>
        /\ frame'[1] = SubSeq(Fed, 1, IF is_long_start(Fed[1], Fed[2])
                                      THEN StdFrameLen ELSE ShortFrameLen)
        /\ current_frame' = <<>>]_vars

\* C1, amended: a returned frame is the whole buffer, which begins with a
\* start pair and holds at least 139 (StartStandard) or 35 (StartShort)
\* durations, and the buffer is empty when the call returns.
C1_WholeBuffer ==
    [][(ReadsLine /\ frame' # None) =>
        /\ frame'[1] = Fed
        /\ \/ is_long_start(Fed[1], Fed[2]) /\ Len(Fed) >= StdFrameLen
           \/ is_short_start(Fed[1], Fed[2]) /\ Len(Fed) >= ShortFrameLen
        /\ current_frame' = <<>>]_vars

C1_Witness ==
    /\ pc = "code"
    /\ is_long_start(frame[1][1], frame[1][2])
    /\ Len(frame[1]) > StdFrameLen
    /\ current_frame = <<>>

\* C2, as stated: a sequence delivered as one frame-start chunk followed by
\* continuation chunks yields the same completed frames as the same
\* sequence delivered in a single frame-start chunk, so any two cuts agree.
OneChunkFrames(timings) ==
    LET r == next_frame(<<>>, timings, TRUE)
    IN  IF r.ret = None THEN <<>> ELSE <<r.ret[1]>>

AllTimings(ls) == Flatten([i \in 1..Len(ls) |-> ls[i].timings])

C2_ChunkIndependence ==
    (/\ pending = <<>>
     /\ read # <<>>
     /\ read[1].received
     /\ \A i \in 2..Len(read) : ~read[i].received)
    => frames = OneChunkFrames(AllTimings(read))

\* C3: a "Received" line on a non-empty buffer prints exactly one "extra
\* bits" warning and the buffer restarts from the line's durations; any
\* other line prints no such warning and its durations are appended.  The
\* content is then either kept in the buffer or handed over as the frame.
C3_Abandoned ==
    [][ReadsLine =>
        /\ Count(out', "extra bits") =
              IF Head(pending).received /\ current_frame # <<>> THEN 1 ELSE 0
        /\ IF frame' = None THEN current_frame' = Fed ELSE frame'[1] = Fed]_vars

C3_Witness ==
    /\ Len(read) >= 2
    /\ read[Len(read)].received
    /\ out = <<"extra bits">>
    /\ frame = None
    /\ current_frame = read[Len(read)].timings
    /\ Len(current_frame) = 70

\* C4, as stated: a line after which the buffer meets no completion
\* condition returns nothing and keeps the buffer, and no line raises a
\* fault, also when the buffer holds fewer than two durations.
C4_IncompleteKept ==
    [][ReadsLine =>
        /\ fault' = "none"
        /\ (~(Len(Fed) >= 2 /\ (LongComplete(Fed) \/ ShortComplete(Fed))))
              => (frame' = None /\ current_frame' = Fed)]_vars

(***************************************************************************)
(* Properties of next_code and next_bytes (specification SpecCode)         *)
(***************************************************************************)
CodecDone == pc \notin {"code", "bytes"}

\* C5, as stated: for every frame, next_code followed by next_bytes ends
\* with bytes in 0..255 or with a None result; neither raises a fault.
C5_RejectWithoutFault ==
    /\ fault = "none"
    /\ (CodecDone /\ bytes # None) => \A k \in 1..Len(bytes[1]) : bytes[1][k] \in 0..255

CleanStd(lead) ==
    /\ sent # None
    /\ sent[1].kind = "std" /\ sent[1].at = 0 /\ sent[1].len = StdFrameLen
    /\ sent[1].lead = lead

\* C6, as stated: the encoding of an 8-byte payload with the 560 us NEC
\* bit-lead burst decodes to the same 8 bytes.
C6_RoundTripNec ==
    (CleanStd(NecBitLead) /\ CodecDone) => (fault = "none" /\ bytes = Some(sent[1].payload))

\* C6, amended: the encoding of an 8-byte payload with the 700 us bit-lead
\* burst of this remote (9000/4500 start, 500/1600/19800 lows, 0 1 0 space
\* between byte 3 and byte 4, closing burst) decodes to the same 8 bytes.
C6_RoundTrip ==
    (CleanStd(BitLead) /\ CodecDone) => (fault = "none" /\ bytes = Some(sent[1].payload))

C6_Witness ==
    /\ CleanStd(BitLead)
    /\ pc = "data"
    /\ sent[1].payload = <<0, 0, 202, 0, 0, 0, 0, 0>>
    /\ bytes = Some(sent[1].payload)

\* C9, as stated: a returned code is Standard (first S, exactly one space,
\* last $, 70 symbols) or Short (first s, no space, last $, 18 symbols).
C9_ValidShape ==
    (pc = "bytes") =>
        LET c == code[1]
            spaces == Cardinality({i \in 1..Len(c) : c[i] = "_"})
        IN  \/ c[1] = "S" /\ spaces = 1 /\ c[Len(c)] = "$" /\ Len(c) = StdCodeLen
            \/ c[1] = "s" /\ spaces = 0 /\ c[Len(c)] = "$" /\ Len(c) = ShortCodeLen

IsBits(c, from, to) == \A i \in from..to : c[i] \in {"0", "1"}

StdForm(c) ==
    /\ Len(c) = StdCodeLen
    /\ c[1] = "S"
    /\ IsBits(c, 2, 33)
    /\ SubSeq(c, 34, 37) = <<"0", "1", "0", "_">>
    /\ IsBits(c, 38, 69)
    /\ c[70] = "$"

ShortForm(c) == Len(c) = ShortCodeLen /\ c[1] = "s" /\ IsBits(c, 2, 17) /\ c[18] = "$"

\* the j-th transmitted data bit (j from 0), the sync run skipped
DataBit(c, j) ==
    LET pos == IF c[1] = "S" /\ j >= 32 THEN j + 6 ELSE j + 2
    IN  IF c[pos] = "1" THEN 1 ELSE 0

RECURSIVE WeighBits(_, _, _)
WeighBits(c, k, i) ==
    IF i = 8 THEN 0 ELSE DataBit(c, 8 * k + i) * (2 ^ i) + WeighBits(c, k, i + 1)

\* C10: a code S, 32 bits, 0 1 0 _, 32 bits, $ gives 8 bytes and a code
\* s, 16 bits, $ gives 2 bytes; bit i of byte k is data bit 8k+i.
C10_LsbFirst ==
    (code # None /\ pc # "bytes" /\ (StdForm(code[1]) \/ ShortForm(code[1]))) =>
        /\ fault = "none"
        /\ bytes = Some([k \in 1..(IF StdForm(code[1]) THEN 8 ELSE 2) |->
                            WeighBits(code[1], k - 1, 0)])

C10_Witness ==
    /\ code # None /\ pc = "data"
    /\ StdForm(code[1])
    /\ SubSeq(code[1], 2, 9) = <<"0", "1", "0", "1", "0", "0", "1", "1">>
    /\ bytes[1][1] = 202
    /\ Len(bytes[1]) = 8

(***************************************************************************)
(* Properties of next_data (specification SpecData)                        *)
(***************************************************************************)
Decoded == pc # "data"

TypeNibble(p) == p[4] \div 16

TypeName(p) ==
    IF Len(p) = 2 THEN "temp"
    ELSE IF TypeNibble(p) = 5 THEN "basic"
    ELSE IF TypeNibble(p) = 6 THEN "timer"
    ELSE "footer"

Dispatched(p) == Len(p) = 2 \/ (Len(p) = 8 /\ TypeNibble(p) \in {5, 6, 10})

\* C7, as stated: every 8-byte payload of type 0x5, 0x6 or 0xA and every
\* 2-byte payload gives a record of that type whatever its other bits; a
\* failure is returned only for another type or length.
C7_AlwaysRecord ==
    Decoded =>
        LET p == bytes[1]
        IN  /\ fault = "none"
            /\ Dispatched(p) => (data # None /\ data[1].type = TypeName(p))
            /\ ~Dispatched(p) => data = None

ModeValues == 0..4
HGuideValues == {0, 1, 2, 3, 4, 5, 6, 12, 13}
VGuideValues == {0, 1, 2, 3, 4, 5, 6, 7, 9, 11}

EnumsValid(p) ==
    \/ Len(p) = 2
    \/ TypeNibble(p) = 10
    \/ TypeNibble(p) = 6 /\ p[1] % 8 \in ModeValues
    \/ /\ TypeNibble(p) = 5
       /\ p[1] % 8 \in ModeValues
       /\ p[5] \div 16 \in HGuideValues
       /\ p[5] % 16 \in VGuideValues

\* C7, amended: such a payload gives a record of its type whenever its
\* enumerated fields (mode; for Basic also both guide nibbles) hold values
\* of their enumerations, whatever the other bits; with an enumerated
\* value outside its set the decoder raises a ValueError; a failure is
\* returned only for another type or length.
C7_RecordOrFault ==
    Decoded =>
        LET p == bytes[1]
        IN  /\ (Dispatched(p) /\ EnumsValid(p)) =>
                  (fault = "none" /\ data # None /\ data[1].type = TypeName(p))
            /\ (Dispatched(p) /\ ~EnumsValid(p)) => fault = "ValueError"
            /\ ~Dispatched(p) =>
                  (fault = "none" /\ data = None /\ out[Len(out)] = "unknown code type")

C7_Witness ==
    /\ Decoded
    /\ fault = "none"
    /\ bytes[1] = <<0, 0, 0, 95, 0, 0, 255, 0>>
    /\ data # None
    /\ data[1].type = "basic"
    /\ Count(out, "nonzero 6[7:0] unused") = 1

CleanFooter(p) ==
    /\ Len(p) = 8
    /\ p[4] = 160
    /\ \A i \in {1, 2, 3, 5, 6, 7} : p[i] = 0
    /\ p[8] % 16 = 0

\* C8, as stated: a footer whose required-zero bytes and bits are zero
\* gives the record {type: footer} and no warning at all.
C8_FooterSilent ==
    (Decoded /\ CleanFooter(bytes[1])) => (data = Some([type |-> "footer"]) /\ out = <<>>)

\* C8, amended: such a footer gives the record {type: footer}; it prints no
\* warning when the high nibble of byte 7 is the checksum 0xA, and exactly
\* one, the checksum mismatch, otherwise.
C8_FooterChecksum ==
    (Decoded /\ CleanFooter(bytes[1])) =>
        /\ data = Some([type |-> "footer"])
        /\ out = IF bytes[1][8] \div 16 = 10 THEN <<>> ELSE <<"checksum mismatch">>

C8_Witness ==
    /\ Decoded
    /\ bytes = Some(<<0, 0, 0, 160, 0, 0, 0, 160>>)
    /\ data = Some([type |-> "footer"])
    /\ out = <<>>

(***************************************************************************)
(* Properties of match_checksum (specification SpecData)                   *)
(***************************************************************************)
\* the seven contributing nibbles: low of bytes 0..3, high of bytes 4..6
Nibble(p, k) == IF k <= 3 THEN p[k + 1] % 16 ELSE p[k + 1] \div 16

WithNibble(p, k, v) ==
    [p EXCEPT ![k + 1] = IF k <= 3 THEN (p[k + 1] \div 16) * 16 + v
                         ELSE v * 16 + (p[k + 1] % 16)]

NibbleSum(p) ==
    (Nibble(p, 0) + Nibble(p, 1) + Nibble(p, 2) + Nibble(p, 3)
     + Nibble(p, 4) + Nibble(p, 5) + Nibble(p, 6) + 10) % 16

\* C11: an 8-byte payload passes (no checksum mismatch is printed) exactly
\* when the high nibble of byte 7 is (low nibbles of bytes 0..3 + high
\* nibbles of bytes 4..6 + 0x0A) mod 16, and setting one of the seven
\* nibbles to another value changes the computed checksum, so that a
\* payload that passed then fails.
C11_Checksum ==
    (Decoded /\ Len(bytes[1]) = 8) =>
        LET p == bytes[1]
            passed == Count(out, "checksum mismatch") = 0
            calc == calc_checksum(p)
        IN  /\ passed <=> (p[8] \div 16 = NibbleSum(p))
            /\ out # <<>> => (passed <=> out[1] # "checksum mismatch")
            /\ \A k \in 0..6 : \A v \in (0..15) \ {Nibble(p, k)} :
                  /\ calc_checksum(WithNibble(p, k, v)) # calc
                  /\ passed => ~match_checksum(WithNibble(p, k, v)).ret

C11_Witness ==
    /\ Decoded
    /\ bytes = Some(<<65, 65, 65, 80, 65, 65, 65, 144>>)
    /\ Count(out, "checksum mismatch") = 0
    /\ ~match_checksum(WithNibble(bytes[1], 4, 5)).ret

(***************************************************************************)
(* Properties of decode_basic_data (specification SpecData)                *)
(***************************************************************************)
HSwinging == {1, 13}
VSwinging == {1, 7, 9, 11}

BasicFields ==
    {"type", "sleep", "fan", "on", "mode", "timer", "timer_hours", "temp", "x_fan",
     "health", "light", "turbo", "fahrenheit", "fresh_air", "h_guide", "v_guide",
     "wifi", "ifeel", "temp_display", "energy_save"}

BasicRecord ==
    /\ Decoded
    /\ Len(bytes[1]) = 8
    /\ TypeNibble(bytes[1]) = 5
    /\ bytes[1][5] \div 16 \in HGuideValues
    /\ bytes[1][5] % 16 \in VGuideValues
    /\ data # None

\* C12: the record of a Basic payload with valid guide nibbles omits
\* `swing` exactly when the byte-0 swing bit (0x40) equals "the horizontal
\* or the vertical guide is in a swinging position"; otherwise it holds
\* `swing` with the value of that bit; every other Basic field is present.
C12_Swing ==
    BasicRecord =>
        LET p == bytes[1]
            bit == (p[1] \div 64) % 2 = 1
            swinging == p[5] \div 16 \in HSwinging \/ p[5] % 16 \in VSwinging
        IN  /\ data[1].type = "basic"
            /\ ("swing" \notin DOMAIN data[1]) <=> (bit = swinging)
            /\ "swing" \in DOMAIN data[1] => data[1].swing = bit
            /\ (DOMAIN data[1]) \ {"swing"} = BasicFields

C12_Witness ==
    /\ BasicRecord
    /\ bytes[1] = <<0, 0, 0, 80, 41, 0, 0, 0>>
    /\ "swing" \in DOMAIN data[1]
    /\ data[1].swing = FALSE
    /\ data[1].v_guide = "SwingMid"

C12_WitnessOmitted ==
    /\ BasicRecord
    /\ bytes[1] = <<65, 65, 65, 80, 209, 65, 65, 65>>
    /\ DOMAIN data[1] = BasicFields

====
